---------------------------- MODULE Spec2Model ----------------------------
(***************************************************************************)
(* Slate detection and clip renaming (src/src/resolve_mcp/slate_detection.py). *)
(*                                                                         *)
(* Python strings are sequences of one-character strings, so that strip,   *)
(* upper, split, substring tests and isalnum are computed character by     *)
(* character.  Python floats of the confidence score are represented by    *)
(* integers that keep the order of the IEEE-754 doubles the code computes  *)
(* (see FAdd).                                                             *)
(***************************************************************************)
EXTENDS Integers, Sequences, FiniteSets, TLC

(***************************************************************************)
(* Bounds of the model.                                                    *)
(***************************************************************************)
\* Largest number of lines of an OCR text.
MaxLines == 3

(***************************************************************************)
(* Strings.                                                                *)
(***************************************************************************)
\* Python's None; no string equals it, since a string holds single characters.
None == <<"None">>

\* Truth value of an Optional[str] in `if x:` / `not x`.
Truthy(v) == v # None /\ v # <<>>

Whitespace == {" ", "\n", "\t", "\r", "\f"}
Digits == {"0","1","2","3","4","5","6","7","8","9"}
UpperLetters == {"A","B","C","D","E","F","G","H","I","J","K","L","M","N","O","P","Q","R","S","T","U","V","W","X","Y","Z"}
LowerToUpper == ("a" :> "A") @@ ("b" :> "B") @@ ("c" :> "C") @@ ("d" :> "D") @@ ("e" :> "E") @@ ("f" :> "F") @@ ("g" :> "G") @@ ("h" :> "H") @@ ("i" :> "I") @@ ("j" :> "J") @@ ("k" :> "K") @@ ("l" :> "L") @@ ("m" :> "M") @@ ("n" :> "N") @@ ("o" :> "O") @@ ("p" :> "P") @@ ("q" :> "Q") @@ ("r" :> "R") @@ ("s" :> "S") @@ ("t" :> "T") @@ ("u" :> "U") @@ ("v" :> "V") @@ ("w" :> "W") @@ ("x" :> "X") @@ ("y" :> "Y") @@ ("z" :> "Z")
LowerLetters == DOMAIN LowerToUpper

MinOf(S) == CHOOSE x \in S : \A y \in S : x <= y
MaxOf(S) == CHOOSE x \in S : \A y \in S : x >= y

\* str.strip(chars): drop the characters of cs from both ends.
StripSet(s, cs) ==
    LET keep == {i \in 1..Len(s) : s[i] \notin cs}
    IN  IF keep = {} THEN <<>> ELSE SubSeq(s, MinOf(keep), MaxOf(keep))

\* str.strip()
Strip(s) == StripSet(s, Whitespace)

\* str.upper()
Upper(s) == [i \in 1..Len(s) |-> IF s[i] \in LowerLetters THEN LowerToUpper[s[i]] ELSE s[i]]

\* str.split(sep) for a one-character sep: empty pieces are kept.
RECURSIVE SplitAt(_, _)
SplitAt(s, seps) ==
    LET at == {i \in 1..Len(s) : s[i] \in seps}
    IN  IF at = {} THEN <<s>>
        ELSE LET i == MinOf(at)
             IN  <<SubSeq(s, 1, i - 1)>> \o SplitAt(SubSeq(s, i + 1, Len(s)), seps)

\* str.split(): split on runs of whitespace, no empty pieces.
Words(s) == SelectSeq(SplitAt(s, Whitespace), LAMBDA w : w # <<>>)

\* sub in s
Contains(s, sub) ==
    \E i \in 1..(Len(s) - Len(sub) + 1) : SubSeq(s, i, i + Len(sub) - 1) = sub

\* s.replace(c, '')
Remove(s, c) == SelectSeq(s, LAMBDA x : x # c)

\* str.isalnum() and str.isdigit(): false on the empty string.
IsAlnum(s) == Len(s) > 0 /\ \A i \in 1..Len(s) : s[i] \in UpperLetters \cup LowerLetters \cup Digits
IsDigit(s) == Len(s) > 0 /\ \A i \in 1..Len(s) : s[i] \in Digits

\* '\n'.join(ls)
RECURSIVE JoinLines(_)
JoinLines(ls) ==
    IF ls = <<>> THEN <<>>
    ELSE IF Len(ls) = 1 THEN ls[1]
    ELSE ls[1] \o <<"\n">> \o JoinLines(Tail(ls))

KW_SLATE == <<"S","L","A","T","E">>
KW_SCENE == <<"S","C","E","N","E">>
KW_TAKE == <<"T","A","K","E">>
KW_ROLL == <<"R","O","L","L">>
KW_CAMERA == <<"C","A","M","E","R","A">>
KW_CAM == <<"C","A","M">>

(***************************************************************************)
(* Floats.  A double v of the score is represented by the integer          *)
(* 10 * round(10 v) + e, where e is -1, 0 or 1 as v is below, equal to or   *)
(* above the double nearest to round(10 v) / 10: 0.3 is 30,               *)
(* 0.30000000000000004 is 31, 0.7999999999999999 is 79, 1.0 is 100.        *)
(***************************************************************************)
\* c + w in IEEE-754 double arithmetic, for the sums the score can form.
FAdd(c, w) ==
    CASE c = 20 /\ w = 10 -> 31    \* 0.2 + 0.1 = 0.30000000000000004
      [] c = 10 /\ w = 20 -> 31    \* 0.1 + 0.2 = 0.30000000000000004
      [] c = 31 /\ w = 10 -> 40    \* 0.30000000000000004 + 0.1 = 0.4
      [] c = 31 /\ w = 20 -> 50    \* 0.30000000000000004 + 0.2 = 0.5
      [] c = 40 /\ w = 20 -> 61    \* 0.4 + 0.2 = 0.6000000000000001
      [] c = 61 /\ w = 20 -> 80    \* 0.6000000000000001 + 0.2 = 0.8
      [] c = 70 /\ w = 10 -> 79    \* 0.7 + 0.1 = 0.7999999999999999
      [] c = 71 /\ w = 10 -> 80    \* 0.7000000000000001 + 0.1 = 0.8
      [] OTHER -> c + w

\* Weights and thresholds of the score, in the representation above.
W_TEXT == 10
W_SLATE == 30
W_SCENE == 20
W_TAKE == 20
W_ROLL == 10
W_CAMERA == 10
W_PRODUCTION == 10
CONF_ONE == 100
TEXT_MIN_LEN == 10
PROD_MIN_LEN == 5

(***************************************************************************)
(* SlateInfo                                                               *)
(***************************************************************************)
TextFields == {"production", "slate_number", "scene", "take", "roll", "camera", "director", "date"}

\* SlateInfo(): every field at its default.
SlateInfo ==
    [production |-> None, slate_number |-> None, scene |-> None, take |-> None,
     roll |-> None, camera |-> None, director |-> None, date |-> None,
     confidence |-> 0, frame_number |-> 0]

(***************************************************************************)
(* SlateDetector._parse_slate_text                                         *)
(***************************************************************************)
\* The variant that keeps a value already set.
AssignIfUnset(info, field, value) ==
    IF info[field] = None THEN [info EXCEPT ![field] = value] ELSE info

\* slate_info.<field> = value
Assign(info, field, value) == [info EXCEPT ![field] = value]

\* potential.replace('/', '').replace('-', '').isalnum()
AlnumAfterStrip(v) == IsAlnum(Remove(Remove(v, "/"), "-"))

\* The token loop of the SLATE/SCENE branch, from token i on.
RECURSIVE SlateSceneScan(_, _, _)
SlateSceneScan(info, words, i) ==
    IF i > Len(words) THEN info
    ELSE LET word == words[i]
             potential_number == StripSet(words[i + 1], {":"})
             next == IF word \in {KW_SLATE, KW_SCENE} /\ i + 1 <= Len(words)
                        /\ AlnumAfterStrip(potential_number)
                     THEN IF Contains(word, KW_SLATE)
                          THEN Assign(info, "slate_number", potential_number)
                          ELSE Assign(info, "scene", potential_number)
                     ELSE info
         IN  SlateSceneScan(next, words, i + 1)

\* The token loop of the TAKE branch.
RECURSIVE TakeScan(_, _, _)
TakeScan(info, words, i) ==
    IF i > Len(words) THEN info
    ELSE LET potential_take == StripSet(words[i + 1], {":"})
             next == IF Contains(words[i], KW_TAKE) /\ i + 1 <= Len(words)
                        /\ IsDigit(potential_take)
                     THEN Assign(info, "take", potential_take)
                     ELSE info
         IN  TakeScan(next, words, i + 1)

\* The token loop of the ROLL branch.
RECURSIVE RollScan(_, _, _)
RollScan(info, words, i) ==
    IF i > Len(words) THEN info
    ELSE LET potential_roll == StripSet(words[i + 1], {":"})
             next == IF Contains(words[i], KW_ROLL) /\ i + 1 <= Len(words)
                        /\ AlnumAfterStrip(potential_roll)
                     THEN Assign(info, "roll", potential_roll)
                     ELSE info
         IN  RollScan(next, words, i + 1)

\* The token loop of the CAMERA/CAM branch.
RECURSIVE CameraScan(_, _, _)
CameraScan(info, words, i) ==
    IF i > Len(words) THEN info
    ELSE LET potential_camera == StripSet(words[i + 1], {":"})
             next == IF (Contains(words[i], KW_CAMERA) \/ Contains(words[i], KW_CAM))
                        /\ i + 1 <= Len(words)
                        /\ AlnumAfterStrip(potential_camera)
                     THEN Assign(info, "camera", potential_camera)
                     ELSE info
         IN  CameraScan(next, words, i + 1)

\* The keywords whose presence keeps a line from being the production name.
ProductionExcluded == {KW_SLATE, KW_SCENE, KW_TAKE, KW_ROLL, KW_CAMERA}

\* The production branch.
ProductionRule(info, line) ==
    IF Len(line) > PROD_MIN_LEN /\ ~(\E keyword \in ProductionExcluded : Contains(line, keyword))
       /\ ~Truthy(info.production) /\ IsAlnum(Remove(line, " "))
    THEN [info EXCEPT !.production = line]
    ELSE info

\* if 'SLATE' in line or 'SCENE' in line: words = line.split(); the token loop
SlateSceneBranch(info, line) ==
    IF Contains(line, KW_SLATE) \/ Contains(line, KW_SCENE)
    THEN SlateSceneScan(info, Words(line), 1) ELSE info

\* if 'TAKE' in line: ...
TakeBranch(info, line) ==
    IF Contains(line, KW_TAKE) THEN TakeScan(info, Words(line), 1) ELSE info

\* if 'ROLL' in line: ...
RollBranch(info, line) ==
    IF Contains(line, KW_ROLL) THEN RollScan(info, Words(line), 1) ELSE info

\* if 'CAMERA' in line or 'CAM' in line: ...
CameraBranch(info, line) ==
    IF Contains(line, KW_CAMERA) \/ Contains(line, KW_CAM)
    THEN CameraScan(info, Words(line), 1) ELSE info

\* The branches of the loop body, in the order of the code, on the line
\* already stripped and upper-cased.
ParseUpperLine(info, line) ==
    ProductionRule(CameraBranch(RollBranch(TakeBranch(SlateSceneBranch(info, line), line),
                                           line), line), line)

\* One iteration of `for line in lines`.
ParseLine(info, raw) == ParseUpperLine(info, Upper(Strip(raw)))

\* text.strip().split('\n')
TextLines(text) == SplitAt(Strip(text), {"\n"})

RECURSIVE ParseLinesFrom(_, _, _)
ParseLinesFrom(info, lines, i) ==
    IF i > Len(lines) THEN info
    ELSE ParseLinesFrom(ParseLine(info, lines[i]), lines, i + 1)

\* _parse_slate_text(text)
ParseSlateText(text) == ParseLinesFrom(SlateInfo, TextLines(text), 1)

(***************************************************************************)
(* SlateDetector._calculate_confidence                                     *)
(***************************************************************************)
\* The variant without the final clamp.
ClampNone(confidence) == confidence

\* min(confidence, 1.0)
Clamp(confidence) == IF confidence < CONF_ONE THEN confidence ELSE CONF_ONE

\* confidence += w if cond
AddIf(confidence, cond, w) == IF cond THEN FAdd(confidence, w) ELSE confidence

CalculateConfidence(info, raw_text) ==
    LET c0 == AddIf(0, Len(Strip(raw_text)) > TEXT_MIN_LEN, W_TEXT)
        c1 == AddIf(c0, Truthy(info.slate_number), W_SLATE)
        c2 == AddIf(c1, Truthy(info.scene), W_SCENE)
        c3 == AddIf(c2, Truthy(info.take), W_TAKE)
        c4 == AddIf(c3, Truthy(info.roll), W_ROLL)
        c5 == AddIf(c4, Truthy(info.camera), W_CAMERA)
        c6 == AddIf(c5, Truthy(info.production), W_PRODUCTION)
    IN  Clamp(c6)

\* slate_info.confidence = self._calculate_confidence(slate_info, text)
Scored(info, text) == [info EXCEPT !.confidence = CalculateConfidence(info, text)]


(***************************************************************************)
(* Inputs: the lines an OCR text is made of.                               *)
(***************************************************************************)
\* 'SCENE: 5A'
L_SceneColon == <<"S","C","E","N","E",":"," ","5","A">>
\* 'TAKE: 3'
L_TakeColon == <<"T","A","K","E",":"," ","3">>
\* 'CAMERA: A'
L_CameraColon == <<"C","A","M","E","R","A",":"," ","A">>
\* 'Slate: 23'
L_SlateColon == <<"S","l","a","t","e",":"," ","2","3">>
\* 'SLATE 12 SCENE 9 TAKE 2 ROLL 4 CAM C'
L_Full == <<"S","L","A","T","E"," ","1","2"," ","S","C","E","N","E"," ","9"," ","T","A","K","E"," ","2"," ","R","O","L","L"," ","4"," ","C","A","M"," ","C">>
\* 'SLATE 23'
L_Slate23 == <<"S","L","A","T","E"," ","2","3">>
\* 'SCENE 7'
L_Scene7 == <<"S","C","E","N","E"," ","7">>
\* 'Take 4'
L_Take4 == <<"T","a","k","e"," ","4">>
\* 'ROLL A1'
L_RollA1 == <<"R","O","L","L"," ","A","1">>
\* 'Cambridge Films'
L_Cambridge == <<"C","a","m","b","r","i","d","g","e"," ","F","i","l","m","s">>
\* ' My Film '
L_MyFilm == <<" ","M","y"," ","F","i","l","m"," ">>
\* 'SCENE 5A SCENE 7'
L_TwoScenes == <<"S","C","E","N","E"," ","5","A"," ","S","C","E","N","E"," ","7">>

LinePool == {L_SceneColon, L_TakeColon, L_CameraColon, L_SlateColon, L_Full, L_Slate23, L_Scene7, L_Take4, L_RollA1, L_Cambridge, L_MyFilm, L_TwoScenes}

\* The texts the OCR engine returns: up to MaxLines lines, each ended by a newline.
Texts == {JoinLines(ls) \o <<"\n">> : ls \in UNION {[1..n -> LinePool] : n \in 0..MaxLines}}

\* A frame is what reading and recognising it yields.
TextFrame(t) == [kind |-> "text", text |-> t]
OcrRaiseFrame == [kind |-> "ocr_raise", text |-> <<>>]

(***************************************************************************)
(* Inputs: the frames of a video.                                          *)
(***************************************************************************)
\* '\n': score 0.0
FT_Blank == <<"\n">>
\* 'SCENE 7\nTake 4\n': score 0.5
FT_Half == <<"S","C","E","N","E"," ","7","\n","T","a","k","e"," ","4","\n">>
\* 'SLATE 23\nSCENE 7\nTake 4\n': score 0.8
FT_80a == <<"S","L","A","T","E"," ","2","3","\n","S","C","E","N","E"," ","7","\n","T","a","k","e"," ","4","\n">>
\* 'SLATE 12\nSCENE 9\nTAKE 2\n': score 0.8, other values
FT_80b == <<"S","L","A","T","E"," ","1","2","\n","S","C","E","N","E"," ","9","\n","T","A","K","E"," ","2","\n">>
\* ' My Film \nSCENE 9 TAKE 2 ROLL 4 CAM C\n': score 0.7999999999999999
FT_79 == <<" ","M","y"," ","F","i","l","m"," ","\n","S","C","E","N","E"," ","9"," ","T","A","K","E"," ","2"," ","R","O","L","L"," ","4"," ","C","A","M"," ","C","\n">>
\* 'SLATE 23\nSCENE 7\nTake 4\nROLL A1\n': score 0.9
FT_90 == <<"S","L","A","T","E"," ","2","3","\n","S","C","E","N","E"," ","7","\n","T","a","k","e"," ","4","\n","R","O","L","L"," ","A","1","\n">>
\* 'SLATE 12 SCENE 9 TAKE 2 ROLL 4 CAM C\n': score 1.0
FT_Full == <<"S","L","A","T","E"," ","1","2"," ","S","C","E","N","E"," ","9"," ","T","A","K","E"," ","2"," ","R","O","L","L"," ","4"," ","C","A","M"," ","C","\n">>

\* What a sampled frame can hold.
FramePool == {TextFrame(t) : t \in {FT_Blank, FT_Half, FT_80a, FT_80b, FT_79, FT_90, FT_Full}}
                 \cup {OcrRaiseFrame}

\* A frame at an index that is not sampled: it is read and never analyzed.
PlainFrame == TextFrame(FT_Blank)

SAMPLE_STRIDE == 5
HIGH_CONFIDENCE == 80
DEFAULT_MAX_FRAMES == 30

\* Largest number of frames cap.read() delivers.
MaxSrcLen == 11

\* The frame sequences of length n: any pool frame at the sampled indices
\* 0, 5, 10, ... (position index + 1), the plain frame elsewhere.
MkSource(n, pick) ==
    [i \in 1..n |-> IF (i - 1) % SAMPLE_STRIDE = 0 THEN pick[((i - 1) \div SAMPLE_STRIDE) + 1]
                    ELSE PlainFrame]

SourcesOfLen(n) ==
    {MkSource(n, pick) : pick \in [1..((n + SAMPLE_STRIDE - 1) \div SAMPLE_STRIDE) -> FramePool]}

Sources == UNION {SourcesOfLen(n) : n \in 0..MaxSrcLen}

\* The values of max_frames tried: a cap below, at and above the sampled
\* indices, and the default.
MaxFramesChoices == {1, 5, 6, 11, DEFAULT_MAX_FRAMES}

(***************************************************************************)
(* State.                                                                  *)
(***************************************************************************)
VARIABLES
    HAS_OPENCV,      \* module flag: cv2 and numpy were imported
    HAS_TESSERACT,   \* module flag: pytesseract and PIL were imported
    frame,           \* analyze_frame: the frame passed in
    raw_text,        \* analyze_frame: the text of the OCR engine
    lines,           \* _parse_slate_text: text.strip().split('\n')
    line_ix,         \* _parse_slate_text: index of the next line of the loop
    slate_info,      \* analyze_frame / _parse_slate_text: the SlateInfo being built
    fpc,             \* analyze_frame: position in the method
    video_exists,    \* analyze_video_for_slate: os.path.exists(video_path)
    source,          \* the frames cap.read() delivers, in order
    src_end,         \* what cap.read() does after them: "eof" (ret False) or "raise"
    max_frames,      \* analyze_video_for_slate: the frame cap
    frame_count,     \* analyze_video_for_slate: the loop counter
    best_slate_info, \* analyze_video_for_slate: the best result so far
    reads,           \* history: number of calls of cap.read()
    analyzed,        \* history: the results of analyze_frame, in call order
    frame_info,      \* what detector.analyze_frame returns for each frame of the source
    vpc,             \* analyze_video_for_slate: "entry", "loop", "returned", "raised"
    clips,           \* the catalog: the current name of each clip of the folder
    dry_run,         \* analyze_clips_and_rename: the dry_run argument
    clip_ix,         \* analyze_clips_and_rename: 0 before the loop, then the next clip
    results,         \* analyze_clips_and_rename: the results dictionary
    ret,             \* analyze_clips_and_rename: what the call returned
    bpc,             \* analyze_clips_and_rename: "entry", "loop", "returned"
    env_log,         \* history: what the catalog and the files did for each clip
    set_calls,       \* history: the calls of SetClipProperty, as <<clip, new_name>>
    name_info,       \* generate_clip_name: the slate_info argument
    name_arg,        \* generate_clip_name: the original_name argument
    name_ret,        \* generate_clip_name: the name returned
    name_log,        \* history: the calls of generate_clip_name, as <<original_name, new_name>>
    npc              \* generate_clip_name: "call", "returned"

flags == <<HAS_OPENCV, HAS_TESSERACT>>
fvars == <<frame, raw_text, lines, line_ix, slate_info, fpc>>
vvars == <<video_exists, source, src_end, max_frames, frame_count, best_slate_info,
           reads, analyzed, frame_info, vpc>>
bvars == <<clips, dry_run, clip_ix, results, ret, bpc, env_log, set_calls>>
nvars == <<name_info, name_arg, name_ret, name_log, npc>>
vars == <<flags, fvars, vvars, bvars, nvars>>

\* The variables of the other operations, at rest.
FrameIdle ==
    /\ frame = OcrRaiseFrame /\ raw_text = <<>> /\ lines = <<>> /\ line_ix = 1
    /\ slate_info = SlateInfo /\ fpc = "idle"

VideoIdle ==
    /\ video_exists = TRUE /\ source = <<>> /\ src_end = "eof" /\ max_frames = DEFAULT_MAX_FRAMES
    /\ frame_count = 0 /\ best_slate_info = SlateInfo /\ reads = 0 /\ analyzed = <<>>
    /\ frame_info = <<>> /\ vpc = "idle"

BatchIdle ==
    /\ clips = <<>> /\ dry_run = TRUE /\ clip_ix = 0
    /\ results = [analyzed_clips |-> 0, successful_renames |-> 0, failed_renames |-> 0,
                  clip_results |-> <<>>]
    /\ ret = "pending" /\ bpc = "idle" /\ env_log = <<>> /\ set_calls = <<>>

NameIdle ==
    /\ name_info = SlateInfo /\ name_arg = <<>> /\ name_ret = None
    /\ name_log = <<>> /\ npc = "idle"

(***************************************************************************)
(* SlateDetector.analyze_frame, step by step.                              *)
(***************************************************************************)
InitFrame ==
    /\ HAS_OPENCV \in BOOLEAN
    /\ HAS_TESSERACT \in BOOLEAN
    /\ frame \in {TextFrame(t) : t \in Texts} \cup {OcrRaiseFrame}
    /\ raw_text = <<>>
    /\ lines = <<>>
    /\ line_ix = 1
    /\ slate_info = SlateInfo
    /\ fpc = "entry"
    /\ VideoIdle
    /\ BatchIdle
    /\ NameIdle

\* if not HAS_TESSERACT or not HAS_OPENCV: return SlateInfo(confidence=0.0)
FrameNoDeps ==
    /\ fpc = "entry"
    /\ ~HAS_TESSERACT \/ ~HAS_OPENCV
    /\ slate_info' = SlateInfo
    /\ fpc' = "done"
    /\ UNCHANGED <<flags, nvars, vvars, bvars, frame, raw_text, lines, line_ix>>

\* cvtColor / fromarray / image_to_string raise: the except branch returns
\* SlateInfo(confidence=0.0).
FrameOcrRaises ==
    /\ fpc = "entry"
    /\ HAS_TESSERACT /\ HAS_OPENCV
    /\ frame.kind = "ocr_raise"
    /\ slate_info' = SlateInfo
    /\ fpc' = "done"
    /\ UNCHANGED <<flags, nvars, vvars, bvars, frame, raw_text, lines, line_ix>>

\* text = image_to_string(...); entry of _parse_slate_text up to the loop.
FrameOcr ==
    /\ fpc = "entry"
    /\ HAS_TESSERACT /\ HAS_OPENCV
    /\ frame.kind = "text"
    /\ raw_text' = frame.text
    /\ lines' = TextLines(frame.text)
    /\ line_ix' = 1
    /\ slate_info' = SlateInfo
    /\ fpc' = "parse"
    /\ UNCHANGED <<flags, nvars, vvars, bvars, frame>>

\* One iteration of the loop over the lines.
FrameParseLine ==
    /\ fpc = "parse"
    /\ line_ix <= Len(lines)
    /\ slate_info' = ParseLine(slate_info, lines[line_ix])
    /\ line_ix' = line_ix + 1
    /\ UNCHANGED <<flags, nvars, vvars, bvars, frame, raw_text, lines, fpc>>

\* The loop is over: _parse_slate_text returns slate_info.
FrameParseReturn ==
    /\ fpc = "parse"
    /\ line_ix > Len(lines)
    /\ fpc' = "score"
    /\ UNCHANGED <<flags, nvars, vvars, bvars, frame, raw_text, lines, line_ix, slate_info>>

\* slate_info.confidence = self._calculate_confidence(slate_info, text); return.
FrameScore ==
    /\ fpc = "score"
    /\ slate_info' = Scored(slate_info, raw_text)
    /\ fpc' = "done"
    /\ UNCHANGED <<flags, nvars, vvars, bvars, frame, raw_text, lines, line_ix>>

NextFrame ==
    \/ FrameNoDeps
    \/ FrameOcrRaises
    \/ FrameOcr
    \/ FrameParseLine
    \/ FrameParseReturn
    \/ FrameScore

SpecFrame == InitFrame /\ [][NextFrame]_vars

(***************************************************************************)
(* _calculate_confidence on every combination of fields.                   *)
(***************************************************************************)
\* Raw texts around the length threshold: 10 and 11 characters once trimmed,
\* 10 characters inside padding, and blank.
T_Len10 == <<"S","C","E","N","E"," ","5","A"," ","1">>
T_Len11 == <<"S","C","E","N","E"," ","5","A"," ","1","2">>
T_Padded10 == <<" "," "," ","S","C","E","N","E"," ","5","A"," ","1"," "," ","\n">>
T_Blank == <<" "," ","\n">>
ScoreTexts == {T_Len10, T_Len11, T_Padded10, T_Blank}

\* A value of a field that is set.
V_Set == <<"X","1">>

ScoredFields == {"slate_number", "scene", "take", "roll", "camera", "production"}

\* Every SlateInfo with each scored field unset or set.
ScoreInfos ==
    {[SlateInfo EXCEPT !.slate_number = sn, !.scene = sc, !.take = tk,
                       !.roll = rl, !.camera = cm, !.production = pr] :
        sn \in {None, V_Set}, sc \in {None, V_Set}, tk \in {None, <<"3">>},
        rl \in {None, V_Set}, cm \in {None, V_Set}, pr \in {None, V_Set}}

InitScore ==
    /\ HAS_OPENCV = TRUE
    /\ HAS_TESSERACT = TRUE
    /\ frame = OcrRaiseFrame
    /\ raw_text \in ScoreTexts
    /\ lines = <<>>
    /\ line_ix = 1
    /\ slate_info \in ScoreInfos
    /\ fpc = "score"
    /\ VideoIdle
    /\ BatchIdle
    /\ NameIdle

NextScore == FrameScore

SpecScore == InitScore /\ [][NextScore]_vars

(***************************************************************************)
(* Properties of _parse_slate_text.                                        *)
(***************************************************************************)
KeywordFields == {"slate_number", "scene", "take", "roll", "camera"}

\* What each of the first n lines gives on its own.
LineInfos(n) == [i \in 1..n |-> ParseLine(SlateInfo, lines[i])]

\* The value of f in the last of the line results li that sets f.
LastValue(f, li) ==
    LET m == {i \in DOMAIN li : li[i][f] # None}
    IN  IF m = {} THEN None ELSE li[MaxOf(m)][f]

\* The value of f in the first of the line results li that sets f.
FirstValue(f, li) ==
    LET m == {i \in DOMAIN li : li[i][f] # None}
    IN  IF m = {} THEN None ELSE li[MinOf(m)][f]

\* C1 as stated: once a line has set slate_number, scene, take, roll or camera,
\* no later line of the text changes it (first match wins).
C1_FirstMatchWins ==
    [][fpc = "parse" => \A f \in KeywordFields :
            slate_info[f] # None => slate_info'[f] = slate_info[f]]_vars

\* C1 amended: slate_number, scene, take, roll and camera hold the value of the
\* last line so far that sets them, and within a line the value after the last
\* matching token (every match overwrites); production alone keeps the value of
\* the first line that sets it.
C1_LastMatchWins ==
    fpc \in {"parse", "score"} =>
        LET li == LineInfos(line_ix - 1)
        IN  /\ \A f \in KeywordFields : slate_info[f] = LastValue(f, li)
            /\ slate_info.production = FirstValue("production", li)
            /\ L_TwoScenes \in {lines[i] : i \in DOMAIN li} =>
                   \E i \in DOMAIN li : li[i].scene = <<"7">>

\* A text is parsed in which a later line has overwritten a field that an
\* earlier line had set to another value.
C1_Witness ==
    /\ fpc = "score"
    /\ LET li == LineInfos(Len(lines))
       IN  \E f \in KeywordFields : \E i, j \in DOMAIN li :
               /\ i < j
               /\ li[i][f] # None
               /\ li[j][f] # None
               /\ li[i][f] # li[j][f]
               /\ slate_info[f] = li[j][f]

\* C2 as stated: 'KEYWORD: value' lines give the value after every keyword:
\* SCENE: 5A / TAKE: 3 / CAMERA: A give scene 5A, take 3, camera A and the score
\* 0.6, and 'Slate: 23' gives slate_number 23.
C2_ColonKeywords ==
    fpc = "done" /\ frame.kind = "text" /\ HAS_OPENCV /\ HAS_TESSERACT =>
        /\ lines = <<L_SceneColon, L_TakeColon, L_CameraColon>> =>
               /\ slate_info.scene = <<"5","A">>
               /\ slate_info.take = <<"3">>
               /\ slate_info.camera = <<"A">>
               /\ slate_info.confidence = 60
        /\ lines = <<L_SlateColon>> => slate_info.slate_number = <<"2","3">>

AllKeywords == {KW_SLATE, KW_SCENE, KW_TAKE, KW_ROLL, KW_CAMERA, KW_CAM}

\* C3 as stated: a line that contains SLATE, SCENE, TAKE, ROLL, CAMERA or CAM
\* never becomes the production value.
C3_KeywordLineNeverProduction ==
    fpc \in {"parse", "score"} =>
        \A i \in 1..(line_ix - 1) :
            LET line == Upper(Strip(lines[i]))
            IN  (\E k \in AllKeywords : Contains(line, k))
                    => slate_info.production # line

(***************************************************************************)
(* Properties of _calculate_confidence.                                    *)
(***************************************************************************)
\* The sum of the weights of what is present, in exact arithmetic.
ExactSum(info, text) ==
    (IF Len(Strip(text)) > TEXT_MIN_LEN THEN W_TEXT ELSE 0)
    + (IF info.slate_number # None THEN W_SLATE ELSE 0)
    + (IF info.scene # None THEN W_SCENE ELSE 0)
    + (IF info.take # None THEN W_TAKE ELSE 0)
    + (IF info.roll # None THEN W_ROLL ELSE 0)
    + (IF info.camera # None THEN W_CAMERA ELSE 0)
    + (IF info.production # None THEN W_PRODUCTION ELSE 0)

\* C4: for every combination of set and unset fields and every raw text the
\* score is min(1.0, sum of the weights of what is present), up to the rounding
\* of the double additions (one step of the representation), and lies in
\* [0.0, 1.0].
C4_ConfidenceClampedSum ==
    fpc = "done" =>
        LET exact == ExactSum(slate_info, raw_text)
            want == IF exact < CONF_ONE THEN exact ELSE CONF_ONE
        IN  /\ slate_info.confidence >= 0
            /\ slate_info.confidence <= CONF_ONE
            /\ slate_info.confidence - want \in {-1, 0, 1}

\* Everything is present, the sum of the weights is 1.1 and the score is 1.0.
C4_Witness ==
    /\ fpc = "done"
    /\ ExactSum(slate_info, raw_text) = 110
    /\ slate_info.confidence = CONF_ONE

(***************************************************************************)
(* analyze_video_for_slate                                                 *)
(***************************************************************************)
\* detector.analyze_frame(frame), as one call.
AnalyzeFrame(fr) ==
    IF ~HAS_TESSERACT \/ ~HAS_OPENCV THEN SlateInfo
    ELSE IF fr.kind = "ocr_raise" THEN SlateInfo
    ELSE Scored(ParseSlateText(fr.text), fr.text)

\* The variant that samples every frame.
SampledEveryFrame(n) == TRUE

\* frame_count % 5 == 0
Sampled(n) == n % SAMPLE_STRIDE = 0

\* The variant that also replaces on an equal confidence.
ReplacesOnTie(info, best) == info.confidence >= best.confidence

\* The variant that keeps the latest result.
ReplacesAlways(info, best) == TRUE

\* slate_info.confidence > best_slate_info.confidence
Replaces(info, best) == info.confidence > best.confidence

\* The variant that stops at 0.8 too.
EarlyExitAtThreshold(info) == info.confidence >= HIGH_CONFIDENCE

\* slate_info.confidence > 0.8
EarlyExit(info) == info.confidence > HIGH_CONFIDENCE

\* The result of analysing the frame read at index n.
SampleResult(fr, n) == [AnalyzeFrame(fr) EXCEPT !.frame_number = n]

\* best_slate_info after the comparison with the new result.
Better(info, best) == IF Replaces(info, best) THEN info ELSE best

InitVideo ==
    /\ HAS_OPENCV \in BOOLEAN
    /\ HAS_TESSERACT \in BOOLEAN
    /\ FrameIdle
    /\ video_exists \in BOOLEAN
    /\ source \in Sources
    /\ src_end \in {"eof", "raise"}
    /\ max_frames \in MaxFramesChoices
    /\ frame_count = 0
    /\ best_slate_info = SlateInfo
    /\ reads = 0
    /\ analyzed = <<>>
    /\ frame_info = [i \in DOMAIN source |-> AnalyzeFrame(source[i])]
    /\ vpc = "entry"
    /\ BatchIdle
    /\ NameIdle

\* if not HAS_OPENCV: raise ImportError
VideoNoOpenCV ==
    /\ vpc = "entry"
    /\ ~HAS_OPENCV
    /\ vpc' = "raised"
    /\ UNCHANGED <<flags, nvars, fvars, bvars, video_exists, source, src_end, max_frames, frame_count,
                   best_slate_info, reads, analyzed, frame_info>>

\* if not os.path.exists(video_path): raise FileNotFoundError
VideoNotFound ==
    /\ vpc = "entry"
    /\ HAS_OPENCV
    /\ ~video_exists
    /\ vpc' = "raised"
    /\ UNCHANGED <<flags, nvars, fvars, bvars, video_exists, source, src_end, max_frames, frame_count,
                   best_slate_info, reads, analyzed, frame_info>>

\* detector, best_slate_info, cap and frame_count are set up.
VideoOpen ==
    /\ vpc = "entry"
    /\ HAS_OPENCV
    /\ video_exists
    /\ best_slate_info' = SlateInfo
    /\ frame_count' = 0
    /\ vpc' = "loop"
    /\ UNCHANGED <<flags, nvars, fvars, bvars, video_exists, source, src_end, max_frames, reads,
                   analyzed, frame_info>>

\* The loop condition fails: cap.release(), return best_slate_info.
VideoCapReached ==
    /\ vpc = "loop"
    /\ ~(frame_count < max_frames)
    /\ vpc' = "returned"
    /\ UNCHANGED <<flags, nvars, fvars, bvars, video_exists, source, src_end, max_frames, frame_count,
                   best_slate_info, reads, analyzed, frame_info>>

\* cap.read() returns ret False: break, cap.release(), return best_slate_info.
VideoReadEnd ==
    /\ vpc = "loop"
    /\ frame_count < max_frames
    /\ frame_count >= Len(source)
    /\ src_end = "eof"
    /\ reads' = reads + 1
    /\ vpc' = "returned"
    /\ UNCHANGED <<flags, nvars, fvars, bvars, video_exists, source, src_end, max_frames, frame_count,
                   best_slate_info, analyzed, frame_info>>

\* cap.read() raises: the except clause logs and re-raises.
VideoReadRaises ==
    /\ vpc = "loop"
    /\ frame_count < max_frames
    /\ frame_count >= Len(source)
    /\ src_end = "raise"
    /\ reads' = reads + 1
    /\ vpc' = "raised"
    /\ UNCHANGED <<flags, nvars, fvars, bvars, video_exists, source, src_end, max_frames, frame_count,
                   best_slate_info, analyzed, frame_info>>

\* A frame is read at an index that is not sampled.
VideoSkipFrame ==
    /\ vpc = "loop"
    /\ frame_count < max_frames
    /\ frame_count < Len(source)
    /\ ~Sampled(frame_count)
    /\ reads' = reads + 1
    /\ frame_count' = frame_count + 1
    /\ UNCHANGED <<flags, nvars, fvars, bvars, video_exists, source, src_end, max_frames,
                   best_slate_info, analyzed, vpc, frame_info>>

\* A frame is read at a sampled index and analyzed; the loop goes on.
VideoAnalyzeFrame ==
    /\ vpc = "loop"
    /\ frame_count < max_frames
    /\ frame_count < Len(source)
    /\ Sampled(frame_count)
    /\ \E info \in {[frame_info[frame_count + 1] EXCEPT !.frame_number = frame_count]} :
           /\ ~EarlyExit(info)
           /\ reads' = reads + 1
           /\ analyzed' = Append(analyzed, info)
           /\ best_slate_info' = Better(info, best_slate_info)
           /\ frame_count' = frame_count + 1
    /\ UNCHANGED <<flags, nvars, fvars, bvars, video_exists, source, src_end, max_frames, vpc,
                   frame_info>>

\* A frame is read at a sampled index and analyzed; its confidence is above
\* 0.8: break, cap.release(), return best_slate_info.
VideoAnalyzeFrameExit ==
    /\ vpc = "loop"
    /\ frame_count < max_frames
    /\ frame_count < Len(source)
    /\ Sampled(frame_count)
    /\ \E info \in {[frame_info[frame_count + 1] EXCEPT !.frame_number = frame_count]} :
           /\ EarlyExit(info)
           /\ reads' = reads + 1
           /\ analyzed' = Append(analyzed, info)
           /\ best_slate_info' = Better(info, best_slate_info)
           /\ vpc' = "returned"
    /\ UNCHANGED <<flags, nvars, fvars, bvars, video_exists, source, src_end, max_frames,
                   frame_count, frame_info>>

NextVideo ==
    \/ VideoNoOpenCV
    \/ VideoNotFound
    \/ VideoOpen
    \/ VideoCapReached
    \/ VideoReadEnd
    \/ VideoReadRaises
    \/ VideoSkipFrame
    \/ VideoAnalyzeFrame
    \/ VideoAnalyzeFrameExit

SpecVideo == InitVideo /\ [][NextVideo]_vars

(***************************************************************************)
(* Properties of analyze_video_for_slate.                                  *)
(***************************************************************************)
\* The largest confidence among the analyzed frames (0 when there is none).
MaxConfidence == MaxOf({0} \cup {analyzed[i].confidence : i \in 1..Len(analyzed)})

\* C5: a sampled frame whose confidence is strictly above 0.8 is the last frame
\* read and the last analyzed, and its result is what is returned; after a frame
\* at or below 0.8 (0.8 itself included) the loop counter moves on.
C5_EarlyExit ==
    \A i \in 1..Len(analyzed) :
        IF analyzed[i].confidence > HIGH_CONFIDENCE
        THEN /\ i = Len(analyzed)
             /\ reads = analyzed[i].frame_number + 1
             /\ frame_count = analyzed[i].frame_number
             /\ vpc = "returned"
             /\ best_slate_info = analyzed[i]
        ELSE frame_count > analyzed[i].frame_number

\* A frame at exactly 0.8 was passed, the next sampled frame is above 0.8 and
\* ends the sampling, and a further sampled frame below the cap is never read.
C5_Witness ==
    /\ vpc = "returned"
    /\ Len(analyzed) = 2
    /\ analyzed[1].confidence = HIGH_CONFIDENCE
    /\ analyzed[2].confidence > HIGH_CONFIDENCE
    /\ Len(source) > frame_count + SAMPLE_STRIDE
    /\ max_frames > frame_count + SAMPLE_STRIDE
    /\ reads = frame_count + 1

\* C6: the confidence of the best result is at least the confidence of every
\* analyzed frame, and is the largest of them as soon as one is above 0.
C6_MaxSelection ==
    vpc \in {"loop", "returned"} =>
        /\ \A i \in 1..Len(analyzed) : best_slate_info.confidence >= analyzed[i].confidence
        /\ best_slate_info.confidence = MaxConfidence

\* The loop has returned and the best frame is not the last one analyzed.
C6_Witness ==
    /\ vpc = "returned"
    /\ \E i, j \in 1..Len(analyzed) :
           /\ i < j
           /\ analyzed[i].confidence > analyzed[j].confidence
           /\ analyzed[j].confidence > 0
           /\ best_slate_info.confidence = analyzed[i].confidence

\* C7: the result returned is the first analyzed frame (the smallest
\* frame_number) among those of the largest confidence; with no analyzed frame,
\* or all of them at 0, it is the SlateInfo with every field unset and
\* confidence 0.
C7_FirstOfTheBest ==
    vpc = "returned" =>
        IF MaxConfidence = 0 THEN best_slate_info = SlateInfo
        ELSE LET top == {i \in 1..Len(analyzed) : analyzed[i].confidence = MaxConfidence}
             IN  /\ best_slate_info = analyzed[MinOf(top)]
                 /\ \A i \in top : best_slate_info.frame_number <= analyzed[i].frame_number

\* A frame at 0, then two frames of the same largest confidence and different
\* fields: the earlier of the two is returned.
C7_Witness ==
    /\ vpc = "returned"
    /\ \E z, i, j \in 1..Len(analyzed) :
           /\ z < i /\ i < j
           /\ analyzed[z].confidence = 0
           /\ analyzed[i].confidence = MaxConfidence
           /\ analyzed[j].confidence = MaxConfidence
           /\ analyzed[i].scene # analyzed[j].scene
           /\ best_slate_info = analyzed[i]

(***************************************************************************)
(* analyze_video_for_slate as one call (the call made for each clip).      *)
(***************************************************************************)
Returned(info) == [status |-> "returned", info |-> info]
Raised == [status |-> "raised", info |-> SlateInfo]

RECURSIVE VideoLoop(_, _, _, _, _)

\* The rest of an iteration at a sampled index, once the frame is analyzed.
AfterSample(src, end, cap, n, best, info) ==
    IF EarlyExit(info) THEN Returned(Better(info, best))
    ELSE VideoLoop(src, end, cap, n + 1, Better(info, best))

\* The while loop from frame_count = n on.
VideoLoop(src, end, cap, n, best) ==
    IF ~(n < cap) THEN Returned(best)
    ELSE IF n >= Len(src) THEN (IF end = "eof" THEN Returned(best) ELSE Raised)
    ELSE IF ~Sampled(n) THEN VideoLoop(src, end, cap, n + 1, best)
    ELSE AfterSample(src, end, cap, n, best, SampleResult(src[n + 1], n))

AnalyzeVideoForSlate(exists, src, end, cap) ==
    IF ~HAS_OPENCV THEN Raised
    ELSE IF ~exists THEN Raised
    ELSE VideoLoop(src, end, cap, 0, SlateInfo)

(***************************************************************************)
(* ClipRenamer.generate_clip_name                                          *)
(***************************************************************************)
P_Scene == <<"S","c","e","n","e","_">>
P_Slate == <<"S","l","a","t","e","_">>
P_Take == <<"T","a","k","e","_">>
P_Cam == <<"C","a","m","_">>

\* sep.join(parts)
RECURSIVE JoinWith(_, _)
JoinWith(parts, sep) ==
    IF parts = <<>> THEN <<>>
    ELSE IF Len(parts) = 1 THEN parts[1]
    ELSE parts[1] \o sep \o JoinWith(Tail(parts), sep)

\* s.endswith(suffix)
EndsWith(s, suffix) ==
    Len(s) >= Len(suffix) /\ SubSeq(s, Len(s) - Len(suffix) + 1, Len(s)) = suffix

\* The variant that takes the piece after the first '.'.
ExtensionAfterFirstDot(original_name) == SplitAt(original_name, {"."})[2]

\* original_name.split('.')[-1]
Extension(original_name) ==
    LET pieces == SplitAt(original_name, {"."}) IN pieces[Len(pieces)]

\* The variant that adds the slate number next to the scene.
NamePartsSceneAndSlate(info) ==
    (IF Truthy(info.production) THEN <<info.production>> ELSE <<>>)
    \o (IF Truthy(info.scene) THEN <<P_Scene \o info.scene>> ELSE <<>>)
    \o (IF Truthy(info.slate_number) THEN <<P_Slate \o info.slate_number>> ELSE <<>>)
    \o (IF Truthy(info.take) THEN <<P_Take \o info.take>> ELSE <<>>)
    \o (IF Truthy(info.camera) THEN <<P_Cam \o info.camera>> ELSE <<>>)

\* The list name_parts.
NameParts(info) ==
    (IF Truthy(info.production) THEN <<info.production>> ELSE <<>>)
    \o (IF Truthy(info.scene) THEN <<P_Scene \o info.scene>>
        ELSE IF Truthy(info.slate_number) THEN <<P_Slate \o info.slate_number>>
        ELSE <<>>)
    \o (IF Truthy(info.take) THEN <<P_Take \o info.take>> ELSE <<>>)
    \o (IF Truthy(info.camera) THEN <<P_Cam \o info.camera>> ELSE <<>>)

\* new_name with the extension, when it does not end with it already.
WithExtension(new_name, extension) ==
    IF ~EndsWith(new_name, <<".">> \o extension) THEN new_name \o <<".">> \o extension
    ELSE new_name

\* The variant without the return of original_name for an empty name_parts.
AssembleNameNoFallback(name_parts, original_name) ==
    IF Contains(original_name, <<".">>)
    THEN WithExtension(JoinWith(name_parts, <<"_">>), Extension(original_name))
    ELSE JoinWith(name_parts, <<"_">>)

\* The name made of name_parts, for a clip called original_name.
AssembleName(name_parts, original_name) ==
    IF name_parts = <<>> THEN original_name
    ELSE IF Contains(original_name, <<".">>)
         THEN WithExtension(JoinWith(name_parts, <<"_">>), Extension(original_name))
         ELSE JoinWith(name_parts, <<"_">>)

GenerateClipName(info, original_name) == AssembleName(NameParts(info), original_name)

(***************************************************************************)
(* Inputs of analyze_clips_and_rename.                                     *)
(***************************************************************************)
\* Largest number of clips of the folder.
MaxClips == 2

N_MVI == <<"M","V","I","_","1","2","3","4",".","m","o","v">>
N_Named == <<"S","c","e","n","e","_","7","_","T","a","k","e","_","4",".","m","o","v">>
N_NoExt == <<"c","l","i","p","0","1">>
ClipNames == {N_MVI, N_Named, N_NoExt}

\* The folders: up to MaxClips clips with distinct names.
Folders ==
    {f \in UNION {[1..n -> ClipNames] : n \in 0..MaxClips} :
        \A i, j \in DOMAIN f : f[i] = f[j] => i = j}

\* 'SLATE 23': 8 characters, score 0.3
FT_Slate == <<"S","L","A","T","E"," ","2","3">>
\* 'ROLL A1 REEL\n': score 0.2
FT_Roll == <<"R","O","L","L"," ","A","1"," ","R","E","E","L","\n">>

\* The file behind a clip: its frames and what cap.read() does after them.
Video(src, end) == [source |-> src, src_end |-> end]
NoVideo == Video(<<>>, "none")
V_Empty == Video(<<>>, "eof")
V_Half == Video(<<TextFrame(FT_Half)>>, "eof")
V_Slate == Video(<<TextFrame(FT_Slate)>>, "eof")
V_Roll == Video(<<TextFrame(FT_Roll)>>, "eof")
V_OcrFails == Video(MkSource(6, <<OcrRaiseFrame, OcrRaiseFrame>>), "eof")
V_OcrThenHalf == Video(MkSource(6, <<OcrRaiseFrame, TextFrame(FT_Half)>>), "eof")
V_ReadRaises == Video(<<TextFrame(FT_Half)>>, "raise")
V_Long == Video(MkSource(11, <<TextFrame(FT_Blank), TextFrame(FT_Full), TextFrame(FT_90)>>), "eof")
ClipVideos ==
    {V_Empty, V_Half, V_Slate, V_Roll, V_OcrFails, V_OcrThenHalf, V_ReadRaises, V_Long}

MIN_CONFIDENCE == 30

(***************************************************************************)
(* analyze_clips_and_rename                                                *)
(***************************************************************************)
\* dict with key k set to v
With(dict, k, v) == (k :> v) @@ dict

\* f"{confidence:.2f}", in hundredths
Format2f(confidence) == ((confidence + 5) \div 10) * 10

R_NoFile == <<"File path not found or file does not exist">>
R_LowConfidence(confidence) == <<"Low confidence slate detection", Format2f(confidence)>>
R_SameName == <<"Generated name same as original">>
R_RenameFailed == <<"Failed to rename clip">>
R_AnalysisError == <<"Analysis error">>

\* clip_result = {"original_name": clip_name, "status": "error"}
NewClipResult(clip_name) == [original_name |-> clip_name, status |-> "error"]

\* A skipped clip: reason and status are set.
SkippedResult(clip_name, reason) ==
    With(With(NewClipResult(clip_name), "reason", reason), "status", "skipped")

\* new_name, slate_info and confidence are recorded.
NamedResult(clip_name, new_name, info) ==
    With(With(With(NewClipResult(clip_name), "new_name", new_name),
              "slate_info", [production |-> info.production, slate_number |-> info.slate_number,
                             scene |-> info.scene, take |-> info.take, roll |-> info.roll,
                             camera |-> info.camera]),
         "confidence", info.confidence)

\* The variant of the except clause that reports the clip as skipped.
AnalysisErrorAsSkipped(clip_name) == SkippedResult(clip_name, R_AnalysisError)

\* The except clause: reason and status "error".
AnalysisErrorResult(clip_name) ==
    With(With(NewClipResult(clip_name), "reason", R_AnalysisError), "status", "error")

\* results["analyzed_clips"] += 1
BeginClip(res) == [res EXCEPT !.analyzed_clips = @ + 1]

\* The variant that appends nothing for a skipped clip.
AppendUnlessSkipped(res, cr) ==
    IF cr.status = "skipped" THEN res ELSE [res EXCEPT !.clip_results = Append(@, cr)]

\* results["clip_results"].append(clip_result)
AppendResult(res, cr) == [res EXCEPT !.clip_results = Append(@, cr)]

CountSuccess(res) == [res EXCEPT !.successful_renames = @ + 1]
CountFailure(res) == [res EXCEPT !.failed_renames = @ + 1]

EmptyResults ==
    [analyzed_clips |-> 0, successful_renames |-> 0, failed_renames |-> 0, clip_results |-> <<>>]

\* What the environment did for one clip.
Env(name, path, video, rename) == [name |-> name, path |-> path, video |-> video, rename |-> rename]

InitBatch ==
    /\ HAS_OPENCV \in BOOLEAN
    /\ HAS_TESSERACT \in BOOLEAN
    /\ FrameIdle
    /\ VideoIdle
    /\ NameIdle
    /\ clips \in Folders
    /\ dry_run \in BOOLEAN
    /\ clip_ix = 0
    /\ results = EmptyResults
    /\ ret = "pending"
    /\ bpc = "entry"
    /\ env_log = <<>>
    /\ set_calls = <<>>

\* if not HAS_OPENCV or not HAS_TESSERACT: return {"error": ...}
BatchNoDeps ==
    /\ bpc = "entry"
    /\ ~HAS_OPENCV \/ ~HAS_TESSERACT
    /\ ret' = "error: Required dependencies not available"
    /\ bpc' = "returned"
    /\ UNCHANGED <<flags, nvars, fvars, vvars, clips, dry_run, clip_ix, results, env_log, set_calls>>

\* folder.GetClips() raises: the outer except returns {"error": ...}.
BatchGetClipsRaises ==
    /\ bpc = "entry"
    /\ HAS_OPENCV /\ HAS_TESSERACT
    /\ ret' = "error: Failed to analyze clips"
    /\ bpc' = "returned"
    /\ UNCHANGED <<flags, nvars, fvars, vvars, clips, dry_run, clip_ix, results, env_log, set_calls>>

\* if not clips: return {"error": "No clips found in the specified folder."}
BatchNoClips ==
    /\ bpc = "entry"
    /\ HAS_OPENCV /\ HAS_TESSERACT
    /\ clips = <<>>
    /\ ret' = "error: No clips found"
    /\ bpc' = "returned"
    /\ UNCHANGED <<flags, nvars, fvars, vvars, clips, dry_run, clip_ix, results, env_log, set_calls>>

\* results and renamer are set up; the loop over the clips begins.
BatchStart ==
    /\ bpc = "entry"
    /\ HAS_OPENCV /\ HAS_TESSERACT
    /\ clips # <<>>
    /\ results' = EmptyResults
    /\ clip_ix' = 1
    /\ bpc' = "loop"
    /\ UNCHANGED <<flags, nvars, fvars, vvars, clips, dry_run, ret, env_log, set_calls>>

\* clip.GetName() raises: no inner try is open, the outer except returns
\* {"error": ...}.
ClipGetNameRaises ==
    /\ bpc = "loop"
    /\ clip_ix <= Len(clips)
    /\ env_log' = Append(env_log, Env(None, "none", NoVideo, "none"))
    /\ ret' = "error: Failed to analyze clips"
    /\ bpc' = "returned"
    /\ UNCHANGED <<flags, nvars, fvars, vvars, clips, dry_run, clip_ix, results, set_calls>>

\* clip.GetClipProperty("File Path") raises: as above.
ClipGetPathRaises ==
    /\ bpc = "loop"
    /\ clip_ix <= Len(clips)
    /\ env_log' = Append(env_log, Env(clips[clip_ix], "raise", NoVideo, "none"))
    /\ ret' = "error: Failed to analyze clips"
    /\ bpc' = "returned"
    /\ UNCHANGED <<flags, nvars, fvars, vvars, clips, dry_run, clip_ix, results, set_calls>>

\* if not clip_path or not os.path.exists(clip_path): skipped.
ClipNoFile ==
    /\ bpc = "loop"
    /\ clip_ix <= Len(clips)
    /\ \E path \in {"absent", "not_on_disk"} :
           env_log' = Append(env_log, Env(clips[clip_ix], path, NoVideo, "none"))
    /\ results' = AppendResult(BeginClip(results), SkippedResult(clips[clip_ix], R_NoFile))
    /\ clip_ix' = clip_ix + 1
    /\ UNCHANGED <<flags, nvars, fvars, vvars, clips, dry_run, ret, bpc, set_calls>>

\* analyze_video_for_slate raises: the except clause of the inner try.
ClipAnalysisRaises ==
    /\ bpc = "loop"
    /\ clip_ix <= Len(clips)
    /\ \E v \in ClipVideos :
           /\ AnalyzeVideoForSlate(TRUE, v.source, v.src_end, DEFAULT_MAX_FRAMES).status = "raised"
           /\ env_log' = Append(env_log, Env(clips[clip_ix], "ok", v, "none"))
    /\ results' = AppendResult(CountFailure(BeginClip(results)),
                               AnalysisErrorResult(clips[clip_ix]))
    /\ clip_ix' = clip_ix + 1
    /\ UNCHANGED <<flags, nvars, fvars, vvars, clips, dry_run, ret, bpc, set_calls>>

\* The variant whose gate is at 0.2, what the text and a roll alone reach.
LowConfidenceBelowRoll(info) == info.confidence < W_TEXT + W_ROLL

\* The variant that also skips a confidence of exactly 0.3.
LowConfidenceOrEqual(info) == info.confidence <= MIN_CONFIDENCE

\* slate_info.confidence < 0.3
LowConfidence(info) == info.confidence < MIN_CONFIDENCE

\* if slate_info.confidence < 0.3: skipped.
ClipLowConfidence ==
    /\ bpc = "loop"
    /\ clip_ix <= Len(clips)
    /\ \E v \in ClipVideos :
           \E an \in {AnalyzeVideoForSlate(TRUE, v.source, v.src_end, DEFAULT_MAX_FRAMES)} :
               /\ an.status = "returned"
               /\ LowConfidence(an.info)
               /\ env_log' = Append(env_log, Env(clips[clip_ix], "ok", v, "none"))
               /\ results' = AppendResult(BeginClip(results),
                                 SkippedResult(clips[clip_ix], R_LowConfidence(an.info.confidence)))
    /\ clip_ix' = clip_ix + 1
    /\ UNCHANGED <<flags, nvars, fvars, vvars, clips, dry_run, ret, bpc, set_calls>>

\* if new_name == clip_name: skipped.
ClipSameName ==
    /\ bpc = "loop"
    /\ clip_ix <= Len(clips)
    /\ \E v \in ClipVideos :
           \E an \in {AnalyzeVideoForSlate(TRUE, v.source, v.src_end, DEFAULT_MAX_FRAMES)} :
               /\ an.status = "returned"
               /\ ~(LowConfidence(an.info))
               /\ GenerateClipName(an.info, clips[clip_ix]) = clips[clip_ix]
               /\ env_log' = Append(env_log, Env(clips[clip_ix], "ok", v, "none"))
    /\ results' = AppendResult(BeginClip(results), SkippedResult(clips[clip_ix], R_SameName))
    /\ clip_ix' = clip_ix + 1
    /\ UNCHANGED <<flags, nvars, fvars, vvars, clips, dry_run, ret, bpc, set_calls>>

\* The variant that calls the rename in dry-run mode too.
RenameCalledAlways(dry) == TRUE

\* if not dry_run: success = renamer.rename_clip(clip, new_name)
RenameCalled(dry) == ~dry

\* dry_run: the rename is simulated, status "renamed".
ClipDryRun ==
    /\ bpc = "loop"
    /\ clip_ix <= Len(clips)
    /\ ~RenameCalled(dry_run)
    /\ \E v \in ClipVideos :
           \E an \in {AnalyzeVideoForSlate(TRUE, v.source, v.src_end, DEFAULT_MAX_FRAMES)} :
           \E new_name \in {GenerateClipName(an.info, clips[clip_ix])} :
               /\ an.status = "returned"
               /\ ~(LowConfidence(an.info))
               /\ new_name # clips[clip_ix]
               /\ env_log' = Append(env_log, Env(clips[clip_ix], "ok", v, "none"))
               /\ results' = AppendResult(CountSuccess(BeginClip(results)),
                                 With(NamedResult(clips[clip_ix], new_name, an.info),
                                      "status", "renamed"))
    /\ clip_ix' = clip_ix + 1
    /\ UNCHANGED <<flags, nvars, fvars, vvars, clips, dry_run, ret, bpc, set_calls>>

\* not dry_run, and clip.SetClipProperty("Clip Name", new_name) returns True.
ClipRenamed ==
    /\ bpc = "loop"
    /\ clip_ix <= Len(clips)
    /\ RenameCalled(dry_run)
    /\ \E v \in ClipVideos :
           \E an \in {AnalyzeVideoForSlate(TRUE, v.source, v.src_end, DEFAULT_MAX_FRAMES)} :
           \E new_name \in {GenerateClipName(an.info, clips[clip_ix])} :
               /\ an.status = "returned"
               /\ ~(LowConfidence(an.info))
               /\ new_name # clips[clip_ix]
               /\ env_log' = Append(env_log, Env(clips[clip_ix], "ok", v, "true"))
               /\ set_calls' = Append(set_calls, <<clip_ix, new_name>>)
               /\ clips' = [clips EXCEPT ![clip_ix] = new_name]
               /\ results' = AppendResult(CountSuccess(BeginClip(results)),
                                 With(NamedResult(clips[clip_ix], new_name, an.info),
                                      "status", "renamed"))
    /\ clip_ix' = clip_ix + 1
    /\ UNCHANGED <<flags, nvars, fvars, vvars, dry_run, ret, bpc>>

\* not dry_run, and SetClipProperty returns a false value or raises (rename_clip
\* catches and returns False): status "error", "Failed to rename clip".
ClipRenameFailed ==
    /\ bpc = "loop"
    /\ clip_ix <= Len(clips)
    /\ RenameCalled(dry_run)
    /\ \E v \in ClipVideos, outcome \in {"false", "raise"} :
           \E an \in {AnalyzeVideoForSlate(TRUE, v.source, v.src_end, DEFAULT_MAX_FRAMES)} :
           \E new_name \in {GenerateClipName(an.info, clips[clip_ix])} :
               /\ an.status = "returned"
               /\ ~(LowConfidence(an.info))
               /\ new_name # clips[clip_ix]
               /\ env_log' = Append(env_log, Env(clips[clip_ix], "ok", v, outcome))
               /\ set_calls' = Append(set_calls, <<clip_ix, new_name>>)
               /\ results' = AppendResult(CountFailure(BeginClip(results)),
                                 With(With(NamedResult(clips[clip_ix], new_name, an.info),
                                           "status", "error"),
                                      "reason", R_RenameFailed))
    /\ clip_ix' = clip_ix + 1
    /\ UNCHANGED <<flags, nvars, fvars, vvars, clips, dry_run, ret, bpc>>

\* The loop is over: return results.
BatchReturn ==
    /\ bpc = "loop"
    /\ clip_ix > Len(clips)
    /\ ret' = "results"
    /\ bpc' = "returned"
    /\ UNCHANGED <<flags, nvars, fvars, vvars, clips, dry_run, clip_ix, results, env_log, set_calls>>

NextBatch ==
    \/ BatchNoDeps
    \/ BatchGetClipsRaises
    \/ BatchNoClips
    \/ BatchStart
    \/ ClipGetNameRaises
    \/ ClipGetPathRaises
    \/ ClipNoFile
    \/ ClipAnalysisRaises
    \/ ClipLowConfidence
    \/ ClipSameName
    \/ ClipDryRun
    \/ ClipRenamed
    \/ ClipRenameFailed
    \/ BatchReturn

SpecBatch == InitBatch /\ [][NextBatch]_vars

(***************************************************************************)
(* Properties of analyze_clips_and_rename                                  *)
(***************************************************************************)

\* The clips that have a clip_result.
ProcessedClips == 1..Len(results.clip_results)

CountStatus(status) ==
    Cardinality({i \in ProcessedClips : results.clip_results[i].status = status})

ReasonOf(cr) == IF "reason" \in DOMAIN cr THEN cr.reason ELSE None

\* analyze_video_for_slate raises on this video.
AnalysisRaises(v) ==
    AnalyzeVideoForSlate(TRUE, v.source, v.src_end, DEFAULT_MAX_FRAMES).status = "raised"

\* The frames of the video that analyze_video_for_slate hands to analyze_frame.
AnalyzedFrames(v) ==
    {n \in 0..(Len(v.source) - 1) :
        /\ Sampled(n)
        /\ n < DEFAULT_MAX_FRAMES
        /\ \A m \in 0..(n - 1) : Sampled(m) => ~EarlyExit(SampleResult(v.source[m + 1], m))}

\* OCR raises on a frame that is analyzed.
OcrFailsInAnalysis(v) == \E n \in AnalyzedFrames(v) : v.source[n + 1].kind = "ocr_raise"

\* The video has a sampled frame below the cap, and OCR raises on every such
\* frame: each of them scores 0, none ends the loop early, all are analyzed.
OcrFailsOnEveryFrame(v) ==
    /\ v.source # <<>>
    /\ \A n \in 0..(Len(v.source) - 1) :
           (Sampled(n) /\ n < DEFAULT_MAX_FRAMES) => v.source[n + 1].kind = "ocr_raise"

\* C8: once the loop over the clips has begun, the call returns the results
\* dictionary with one clip_result per clip of the folder, never a bare
\* top-level error, whatever GetName, GetClipProperty, SetClipProperty, the
\* file check or the analysis do.
C8_PerClipFailuresNeverAbort ==
    (bpc = "returned" /\ clip_ix >= 1) =>
        /\ ret = "results"
        /\ Len(results.clip_results) = Len(clips)

\* C9 as stated: every clip for which reading a frame raises or OCR fails on
\* an analyzed frame ends in status "error" with the analysis-error reason.
C9_AnalysisFailureIsError ==
    \A i \in ProcessedClips :
        (/\ env_log[i].path = "ok"
         /\ AnalysisRaises(env_log[i].video) \/ OcrFailsInAnalysis(env_log[i].video))
        => /\ results.clip_results[i].status = "error"
           /\ ReasonOf(results.clip_results[i]) = R_AnalysisError

\* C9 as the code has it: a clip ends in status "error" with the
\* analysis-error reason exactly when analyze_video_for_slate raises on it
\* (reading a frame raises), and each such clip is counted in failed_renames;
\* an OCR failure on a frame is absorbed as a zero-confidence frame, so the
\* clip never gets the analysis-error reason for it, and a clip whose every
\* analyzed frame fails OCR is skipped as low confidence (0.00).
C9_OnlyRaisedAnalysisIsError ==
    /\ \A i \in ProcessedClips :
           env_log[i].path = "ok" =>
               \A raises \in {AnalysisRaises(env_log[i].video)} :
                   /\ raises <=>
                          /\ results.clip_results[i].status = "error"
                          /\ ReasonOf(results.clip_results[i]) = R_AnalysisError
                   /\ (OcrFailsOnEveryFrame(env_log[i].video) /\ ~raises) =>
                          /\ results.clip_results[i].status = "skipped"
                          /\ ReasonOf(results.clip_results[i]) = R_LowConfidence(0)
    /\ results.failed_renames = CountStatus("error")

\* The batch has returned its results for a clip whose frame read raised and a
\* clip whose OCR failed on every analyzed frame.
C9_Witness ==
    /\ ret = "results"
    /\ \E i \in ProcessedClips : env_log[i].path = "ok" /\ env_log[i].video = V_ReadRaises
    /\ \E i \in ProcessedClips : env_log[i].path = "ok" /\ env_log[i].video = V_OcrFails

\* C10: in the results that analyze_clips_and_rename returns (and after every
\* iteration of its loop), analyzed_clips is the length of clip_results,
\* successful_renames the number of "renamed" entries, failed_renames the
\* number of "error" entries, their sum is at most analyzed_clips, and
\* clip_results holds one entry per clip in iteration order.
C10_CountsMatchClipResults ==
    (bpc = "loop" \/ ret = "results") =>
        /\ results.analyzed_clips = Len(results.clip_results)
        /\ results.successful_renames = CountStatus("renamed")
        /\ results.failed_renames = CountStatus("error")
        /\ results.successful_renames + results.failed_renames <= results.analyzed_clips
        /\ Len(results.clip_results) = clip_ix - 1
        /\ ret = "results" => Len(results.clip_results) = Len(clips)
        /\ \A i \in ProcessedClips : results.clip_results[i].original_name = env_log[i].name

\* Results are returned for a folder in which one clip was skipped and another
\* was renamed or failed.
C10_Witness ==
    /\ ret = "results"
    /\ Len(results.clip_results) = MaxClips
    /\ CountStatus("skipped") >= 1
    /\ CountStatus("renamed") + CountStatus("error") >= 1

\* The analysis of the video returned a result that passes the confidence
\* gate, and the name generated from it differs from the clip's name.
NewNameGenerated(e) ==
    /\ e.path = "ok"
    /\ \A an \in {AnalyzeVideoForSlate(TRUE, e.video.source, e.video.src_end, DEFAULT_MAX_FRAMES)} :
           /\ an.status = "returned"
           /\ ~(an.info.confidence < MIN_CONFIDENCE)
           /\ GenerateClipName(an.info, e.name) # e.name

\* In dry-run mode: SetClipProperty has not been called, every processed
\* clip still has the name GetName returned, and every clip with a new,
\* different name is reported as "renamed" with that name and counted.
DryRunState ==
    dry_run =>
        /\ set_calls = <<>>
        /\ \A i \in ProcessedClips :
               /\ clips[i] = env_log[i].name
               /\ NewNameGenerated(env_log[i]) =>
                      /\ results.clip_results[i].status = "renamed"
                      /\ results.clip_results[i].new_name # env_log[i].name
        /\ results.successful_renames =
               Cardinality({i \in ProcessedClips : NewNameGenerated(env_log[i])})

\* C11: in dry-run mode no step of analyze_clips_and_rename calls
\* SetClipProperty or changes a clip name of the folder, and each clip for
\* which a new, different name was generated is reported with status
\* "renamed" and counted in successful_renames.
C11_DryRunLeavesCatalog ==
    /\ []DryRunState
    /\ [][dry_run => (clips' = clips /\ set_calls' = set_calls)]_vars

\* A dry run has returned results that report a clip as renamed.
C11_Witness ==
    /\ dry_run
    /\ ret = "results"
    /\ CountStatus("renamed") >= 1
    /\ CountStatus("skipped") >= 1

\* The clip has no usable file.
NoFile(e) == e.path \in {"absent", "not_on_disk"}

\* The best confidence found in the clip's video, or -1 if there is none
\* (no file, or the analysis raised).
BestConfidence(e) ==
    IF e.path # "ok" THEN -1
    ELSE LET an == AnalyzeVideoForSlate(TRUE, e.video.source, e.video.src_end, DEFAULT_MAX_FRAMES)
         IN  IF an.status = "returned" THEN an.info.confidence ELSE -1

\* Clip i has no file, or a best confidence below 0.3.
MustBeSkipped(i) ==
    \/ NoFile(env_log[i])
    \/ \A c \in {BestConfidence(env_log[i])} : 0 <= c /\ c < 30

SkippedClipState ==
    \A i \in ProcessedClips :
        /\ MustBeSkipped(i) =>
               /\ results.clip_results[i].status = "skipped"
               /\ ReasonOf(results.clip_results[i]) # None
               /\ "new_name" \notin DOMAIN results.clip_results[i]
               /\ env_log[i].rename = "none"
               /\ \A k \in DOMAIN set_calls : set_calls[k][1] # i
        /\ NoFile(env_log[i]) => ReasonOf(results.clip_results[i]) = R_NoFile
        /\ BestConfidence(env_log[i]) >= 30 =>
               ReasonOf(results.clip_results[i])[1] # R_LowConfidence(0)[1]

\* The step that processes a clip which must be skipped.
SkippedClipStep ==
    (/\ Len(results'.clip_results) = Len(results.clip_results) + 1
     /\ \A i \in {Len(results'.clip_results)} :
            NoFile(env_log'[i]) \/ \A c \in {BestConfidence(env_log'[i])} : 0 <= c /\ c < 30)
    => /\ results'.analyzed_clips = results.analyzed_clips + 1
       /\ results'.successful_renames = results.successful_renames
       /\ results'.failed_renames = results.failed_renames
       /\ set_calls' = set_calls
       /\ clips' = clips

\* C12: a clip whose path is absent or not on disk, or whose best confidence
\* is below 0.3, ends "skipped" with a reason; processing it adds one to
\* analyzed_clips, leaves successful_renames and failed_renames alone, records
\* no new_name and does not call the rename; a best confidence of 0.3 or more
\* is never skipped for low confidence.
C12_SkippedClips ==
    /\ []SkippedClipState
    /\ [][SkippedClipStep]_vars

\* Results are returned for a clip that scored 0.2 and a clip that scored
\* exactly 0.3.
C12_Witness ==
    /\ ret = "results"
    /\ \E i \in ProcessedClips : BestConfidence(env_log[i]) = 20
    /\ \E i \in ProcessedClips : BestConfidence(env_log[i]) = 30

(***************************************************************************)
(* ClipRenamer.generate_clip_name, called on a clip and called again on    *)
(* the name it returned.                                                   *)
(***************************************************************************)
\* Largest number of successive calls.
MaxCalls == 2

\* Field values as _parse_slate_text leaves them: upper case, letters, digits,
\* '/' and '-' (and spaces in production).
ProductionValues == {None, <<"M","Y"," ","F","I","L","M">>}
SceneValues == {None, <<"5">>, <<"7","-","A">>}
SlateNumberValues == {None, <<"2","3">>}
TakeValues == {None, <<"3">>, <<"4">>}
RollValues == {None, <<"A","1">>}
CameraValues == {None, <<"A">>, <<"M","O","V">>}

NameInfos ==
    {[SlateInfo EXCEPT !.production = p, !.slate_number = sl, !.scene = sc, !.take = t,
                       !.roll = r, !.camera = c] :
        p \in ProductionValues, sl \in SlateNumberValues, sc \in SceneValues,
        t \in TakeValues, r \in RollValues, c \in CameraValues}

N_TwoDots == <<"a",".","b",".","m","o","v">>
N_TrailingDot == <<"x",".">>
N_Hidden == <<".","m","o","v">>
NameArgs == {N_MVI, N_Named, N_NoExt, N_TwoDots, N_TrailingDot, N_Hidden}

InitName ==
    /\ HAS_OPENCV = TRUE
    /\ HAS_TESSERACT = TRUE
    /\ FrameIdle
    /\ VideoIdle
    /\ BatchIdle
    /\ name_info \in NameInfos
    /\ name_arg \in NameArgs
    /\ name_ret = None
    /\ name_log = <<>>
    /\ npc = "call"

\* new_name = renamer.generate_clip_name(slate_info, clip_name)
NameCall ==
    /\ npc = "call"
    /\ \E name \in {GenerateClipName(name_info, name_arg)} :
           /\ name_ret' = name
           /\ name_log' = Append(name_log, <<name_arg, name>>)
    /\ npc' = "returned"
    /\ UNCHANGED <<flags, fvars, vvars, bvars, name_info, name_arg>>

\* The clip now carries the returned name, and is named again from the same
\* slate information.
NameAgain ==
    /\ npc = "returned"
    /\ Len(name_log) < MaxCalls
    /\ name_arg' = name_ret
    /\ npc' = "call"
    /\ UNCHANGED <<flags, fvars, vvars, bvars, name_info, name_ret, name_log>>

NextName ==
    \/ NameCall
    \/ NameAgain

SpecName == InitName /\ [][NextName]_vars

(***************************************************************************)
(* Properties of generate_clip_name                                        *)
(***************************************************************************)
HasDot(name) == \E i \in DOMAIN name : name[i] = "."

\* The text after the last '.' of a name that has one.
AfterLastDot(name) ==
    SubSeq(name, MaxOf({i \in DOMAIN name : name[i] = "."}) + 1, Len(name))

\* The last n characters of a name.
LastChars(name, n) == SubSeq(name, Len(name) - n + 1, Len(name))

NoDotInFields(info) ==
    \A f \in {"production", "slate_number", "scene", "take", "roll", "camera"} : ~HasDot(info[f])

\* C13: for slate information whose field values have no '.', the name
\* returned for an original name with a '.' ends with '.' and the text after
\* the original's last '.'; for an original name without '.' it has no '.';
\* and naming the returned name again returns it unchanged.
C13_IdempotentKeepsExtension ==
    NoDotInFields(name_info) =>
        \A k \in DOMAIN name_log :
            /\ HasDot(name_log[k][1]) =>
                   \A ext \in {<<".">> \o AfterLastDot(name_log[k][1])} :
                       /\ Len(name_log[k][2]) >= Len(ext)
                       /\ LastChars(name_log[k][2], Len(ext)) = ext
            /\ ~HasDot(name_log[k][1]) => ~HasDot(name_log[k][2])
            /\ k > 1 =>
                   /\ name_log[k][1] = name_log[k - 1][2]
                   /\ name_log[k][2] = name_log[k - 1][2]

\* A clip with two dots in its name got a new name and was named again.
C13_Witness ==
    /\ Len(name_log) = 2
    /\ name_log[1][1] = N_TwoDots
    /\ name_log[1][2] # N_TwoDots
    /\ npc = "returned"

\* The parts the name is made of, each empty when it is left out:
\* production, the scene or else the slate number, the take, the camera.
ProductionPart(info) == IF Truthy(info.production) THEN info.production ELSE <<>>
ScenePart(info) ==
    IF Truthy(info.scene) THEN <<"S","c","e","n","e","_">> \o info.scene
    ELSE IF Truthy(info.slate_number) THEN <<"S","l","a","t","e","_">> \o info.slate_number
    ELSE <<>>
TakePart(info) == IF Truthy(info.take) THEN <<"T","a","k","e","_">> \o info.take ELSE <<>>
CameraPart(info) == IF Truthy(info.camera) THEN <<"C","a","m","_">> \o info.camera ELSE <<>>

\* a and b with '_' between them, when both are there.
Underscore(a, b) == IF a = <<>> THEN b ELSE IF b = <<>> THEN a ELSE a \o <<"_">> \o b

\* The parts, in their order, joined by '_'.
ExpectedStem(info) ==
    Underscore(ProductionPart(info),
               Underscore(ScenePart(info), Underscore(TakePart(info), CameraPart(info))))

ExampleInfo == [SlateInfo EXCEPT !.scene = <<"5">>, !.take = <<"3">>, !.camera = <<"A">>]
ExampleName == <<"S","c","e","n","e","_","5","_","T","a","k","e","_","3","_","C","a","m","_","A",".","m","o","v">>

\* C14: the returned name is production, 'Scene_<scene>' or else
\* 'Slate_<slate_number>', 'Take_<take>' and 'Cam_<camera>', in this order and
\* joined by '_', followed by nothing or by the extension; it never holds
\* both a Scene_ and a Slate_ part; roll adds nothing; and scene '5', take
\* '3', camera 'A' with 'MVI_1234.mov' give 'Scene_5_Take_3_Cam_A.mov'.
C14_PartsInOrder ==
    \A k \in DOMAIN name_log :
        /\ \A stem \in {ExpectedStem(name_info)} :
               stem # <<>> =>
                   /\ Len(name_log[k][2]) >= Len(stem)
                   /\ SubSeq(name_log[k][2], 1, Len(stem)) = stem
                   /\ \/ Len(name_log[k][2]) = Len(stem)
                      \/ /\ name_log[k][2][Len(stem) + 1] = "."
                         /\ SubSeq(name_log[k][2], Len(stem) + 2, Len(name_log[k][2]))
                                = AfterLastDot(name_log[k][1])
                   /\ ~(Contains(name_log[k][2], <<"S","c","e","n","e","_">>) /\ Contains(name_log[k][2], <<"S","l","a","t","e","_">>))
        /\ (name_info = ExampleInfo /\ name_log[k][1] = N_MVI) => name_log[k][2] = ExampleName

\* The example has been named.
C14_Witness ==
    /\ name_info = ExampleInfo
    /\ Len(name_log) >= 1
    /\ name_log[1] = <<N_MVI, ExampleName>>

\* production, scene, slate_number, take and camera are all unset.
NothingToName(info) ==
    \A f \in {"production", "scene", "slate_number", "take", "camera"} : info[f] = None

\* C15: when production, scene, slate_number, take and camera are all unset,
\* whatever roll is, the name returned is the original name, character for
\* character.
C15_IdentityFallback ==
    NothingToName(name_info) => \A k \in DOMAIN name_log : name_log[k][2] = name_log[k][1]

\* A clip with an extension was named from slate information with only a roll.
C15_Witness ==
    /\ NothingToName(name_info)
    /\ name_info.roll # None
    /\ npc = "returned"
    /\ name_log[1][1] = N_MVI

(***************************************************************************)
(* The sampling loop of analyze_video_for_slate                            *)
(***************************************************************************)
\* Each iteration of the while loop is one step of a single thread that
\* nothing blocks: a step that can be taken is taken.
SpecVideoLive == InitVideo /\ [][NextVideo]_vars /\ WF_vars(NextVideo)

VideoOver == vpc \in {"returned", "raised"}

\* The number of indices 0, 5, 10, ... below m.
StrideCount(m) == (m + 4) \div 5

\* The k-th analysis is that of the frame at source index 5 * (k - 1), which
\* lies below max_frames and the source length, and carries that index; only
\* the last analysis may have a confidence above 0.8; at most max_frames
\* reads are made; and a loop that is over without such a confidence has
\* analyzed every index 0, 5, 10, ... below min(max_frames, source length).
SamplingState ==
    /\ reads <= max_frames
    /\ \A k \in DOMAIN analyzed :
           /\ analyzed[k].frame_number = 5 * (k - 1)
           /\ 5 * (k - 1) < MinOf({max_frames, Len(source)})
           /\ analyzed[k].confidence = AnalyzeFrame(source[5 * (k - 1) + 1]).confidence
           /\ k < Len(analyzed) => analyzed[k].confidence <= 80
    /\ (VideoOver /\ HAS_OPENCV /\ video_exists) =>
           \/ analyzed # <<>> /\ analyzed[Len(analyzed)].confidence > 80
           \/ Len(analyzed) = StrideCount(MinOf({max_frames, Len(source)}))

\* C16: for every source and every positive max_frames the call comes to an
\* end, makes at most max_frames reads, and analyzes exactly the frames at
\* source indices 0, 5, 10, ... below min(max_frames, source length) up to
\* an early exit, each once, in increasing order, each result carrying its
\* source index as frame_number.
C16_SamplingTerminates ==
    /\ <>VideoOver
    /\ []SamplingState

\* The loop ended at the end of an 11-frame source after analyzing the frames
\* 0, 5 and 10.
C16_Witness ==
    /\ vpc = "returned"
    /\ Len(source) = 11
    /\ max_frames > 11
    /\ Len(analyzed) = 3
    /\ analyzed[3].frame_number = 10
    /\ reads = 12

(***************************************************************************)
(* The confidence gate and the name fallback                               *)
(***************************************************************************)
\* The best slate information of a clip whose analysis returned.
BestInfo(e) ==
    AnalyzeVideoForSlate(TRUE, e.video.source, e.video.src_end, DEFAULT_MAX_FRAMES).info

\* The clip got as far as generate_clip_name.
ReachedNaming(cr) ==
    \/ "new_name" \in DOMAIN cr
    \/ ReasonOf(cr) = R_SameName

\* The name the parts and the extension of the original name make.
ExpectedName(info, name) ==
    IF HasDot(name) THEN ExpectedStem(info) \o <<".">> \o AfterLastDot(name)
    ELSE ExpectedStem(info)

\* C17: every clip that passes the confidence gate, and every clip that gets
\* as far as generate_clip_name, has production, scene, slate_number, take or
\* camera set, so the name is assembled from parts; and a clip is skipped as
\* 'Generated name same as original' only when the assembled name is the
\* clip's current name.
C17_GateImpliesNameParts ==
    \A i \in ProcessedClips :
        \A info \in {IF env_log[i].path = "ok" THEN BestInfo(env_log[i]) ELSE SlateInfo} :
            /\ (BestConfidence(env_log[i]) >= 30 \/ ReachedNaming(results.clip_results[i])) =>
                   /\ ~NothingToName(info)
                   /\ ExpectedStem(info) # <<>>
                   /\ ReachedNaming(results.clip_results[i])
            /\ ReasonOf(results.clip_results[i]) = R_SameName =>
                   env_log[i].name = ExpectedName(info, env_log[i].name)
            /\ "new_name" \in DOMAIN results.clip_results[i] =>
                   /\ results.clip_results[i].new_name = ExpectedName(info, env_log[i].name)
                   /\ results.clip_results[i].new_name # env_log[i].name

\* Results are returned for a clip whose only finds are a roll and a long text
\* (0.2) and a clip whose assembled name is the name it has.
C17_Witness ==
    /\ ret = "results"
    /\ \E i \in ProcessedClips :
           /\ env_log[i].video = V_Roll
           /\ ReasonOf(results.clip_results[i]) = R_LowConfidence(20)
    /\ \E i \in ProcessedClips : ReasonOf(results.clip_results[i]) = R_SameName

=============================================================================
